---- MODULE Spec2Model ----
(***************************************************************************)
(* A model of the raycasting renderer of src/index.ts: the scene grid, the *)
(* ray stepper and ray caster, the per-column strip decision of             *)
(* renderScene, the six key flags and the per-frame movement integrator.    *)
(*                                                                          *)
(* Numbers.  A JavaScript number is modelled as an exact rational           *)
(* [n |-> numerator, d |-> denominator], d > 0, in lowest terms.  Rounding  *)
(* of the floating-point operations is not modelled; Math.floor, Math.ceil, *)
(* Math.sign, Math.max and the comparisons are exact.  Math.cos / Math.sin  *)
(* are tabulated at the multiples of PI/4 (see COS_TABLE).                  *)
(***************************************************************************)
EXTENDS Integers, Sequences, FiniteSets, TLC

(***************************************************************************)
(* Bounds of the model.                                                     *)
(***************************************************************************)
\* number of executions of `frame` explored in one behaviour
MaxFrames == 2
\* number of keys the environment holds down at the same time
MaxHeld == 2
\* calls of rayStep explored in one cast
MaxIters == 26
\* ray origins lie on the half-integer points of [0, OriginMax] x [0, OriginMax]
OriginMax == 2
\* ray targets lie at origin + (i/4, j/4) with i, j in -TargetSpan .. TargetSpan
TargetSpan == 2

(***************************************************************************)
(* Numbers                                                                  *)
(***************************************************************************)
Abs(a) == IF a < 0 THEN -a ELSE a

RECURSIVE Gcd(_, _)
Gcd(a, b) == IF b = 0 THEN a ELSE Gcd(b, a % b)

\* the number n/d (d # 0), in lowest terms with a positive denominator
Num(n, d) ==
  LET g == Gcd(Abs(n), Abs(d))
      s == IF d < 0 THEN -1 ELSE 1
  IN  [n |-> (s * n) \div g, d |-> (s * d) \div g]

Whole(i) == [n |-> i, d |-> 1]

\* Number.MIN_VALUE (5e-324), the least positive double: for every double x,
\* x < MIN_VALUE iff x <= 0, and MIN_VALUE < x iff x > 0 and x # MIN_VALUE.
\* It is kept as a value of its own, outside the rationals n/d with d > 0.
Number_MIN_VALUE == [n |-> 1, d |-> 0]

Plus(a, b)  == Num(a.n * b.d + b.n * a.d, a.d * b.d)
Minus(a, b) == Num(a.n * b.d - b.n * a.d, a.d * b.d)
Times(a, b) == Num(a.n * b.n, a.d * b.d)
\* a / b for b # 0
Over(a, b)  == Num(a.n * b.d, a.d * b.n)

\* a < b
Less(a, b) ==
  IF b = Number_MIN_VALUE THEN a # Number_MIN_VALUE /\ a.n <= 0
  ELSE IF a = Number_MIN_VALUE THEN b.n > 0
  ELSE a.n * b.d < b.n * a.d

\* a <= b, a > b, a >= b as JavaScript evaluates them on numbers
LessEq(a, b) == a = b \/ Less(a, b)

IsZero(a) == a.n = 0

\* Math.floor
MathFloor(a) == a.n \div a.d

\* Math.sign
MathSign(a) == IF a.n > 0 THEN 1 ELSE IF a.n < 0 THEN -1 ELSE 0

\* Math.max
MathMax(a, b) == IF Less(a, b) THEN b ELSE a

\* EPS = 1e-7 = 1 / EPS_DEN
EPS_DEN == 10000000
EPS == Num(1, EPS_DEN)

\* Math.floor(x + s * EPS) for s in {-1, 0, 1}.  With q = floor(x) and
\* r/d = x - q in [0, 1): the sum reaches q + 1 iff (d - r) * EPS_DEN <= d, and
\* falls below q iff r * EPS_DEN < d.  The products are compared by division,
\* so that no intermediate value leaves the 32-bit integers.
FloorShift(x, s) ==
  LET q == MathFloor(x)
      r == x.n - q * x.d
  IN  IF s > 0 THEN (IF x.d - r <= x.d \div EPS_DEN THEN q + 1 ELSE q)
      ELSE IF s < 0 THEN (IF r <= (x.d - 1) \div EPS_DEN THEN q - 1 ELSE q)
      ELSE q

\* Math.ceil(x + EPS): q + 1 when r/d + EPS <= 1, else q + 2
CeilPlusEps(x) ==
  LET q == MathFloor(x)
      r == x.n - q * x.d
  IN  IF x.d - r >= (x.d + EPS_DEN - 1) \div EPS_DEN THEN q + 1 ELSE q + 2

(***************************************************************************)
(* Vector2                                                                  *)
(***************************************************************************)
Vector2(x, y) == [x |-> x, y |-> y]

zero == Vector2(Whole(0), Whole(0))

add(this, that) == Vector2(Plus(this.x, that.x), Plus(this.y, that.y))

sub(this, that) == Vector2(Minus(this.x, that.x), Minus(this.y, that.y))

scale(this, value) == Vector2(Times(this.x, value), Times(this.y, value))

rot90(this) == Vector2(Minus(Whole(0), this.y), this.x)

sqrLength(this) == Plus(Times(this.x, this.x), Times(this.y, this.y))

\* this.sqrDistanceTo(that)
sqrDistanceTo(this, that) == sqrLength(sub(that, this))

dot(this, that) == Plus(Times(this.x, that.x), Times(this.y, that.y))

\* Math.cos at k * PI / 4, k = 0..7; sqrt(2)/2 is kept to three decimals
COS_TABLE ==
  << Whole(1), Num(707, 1000), Whole(0), Num(-707, 1000),
     Whole(-1), Num(-707, 1000), Whole(0), Num(707, 1000) >>

\* Vector2.fromAngle(angle); an angle is kept as a rational multiple of PI and
\* is a multiple of 1/4 in every state of the model
fromAngle(angle) ==
  LET k == MathFloor(Times(angle, Whole(4)))
  IN  Vector2(COS_TABLE[(k % 8) + 1], COS_TABLE[((k + 6) % 8) + 1])

(***************************************************************************)
(* Scene                                                                    *)
(***************************************************************************)
\* A cell is null (Empty), a Color or an HTMLImageElement.  Reading past the
\* end of a row yields JavaScript's undefined; reading a row that does not
\* exist and indexing it throws a TypeError.
NULL == "null"
UNDEFINED == "undefined"
TYPE_ERROR == "TypeError"
Colors == {"cyan", "yellow", "red", "green", "blue"}
Images == {"forest", "wall"}

\* the scene literal of the program
ProgramScene ==
  << << "forest", "wall", "cyan", "forest", NULL, NULL, NULL, NULL, NULL, NULL >>,
     << NULL, NULL, NULL, "yellow", NULL, NULL, NULL, NULL, NULL, NULL >>,
     << NULL, "red", "green", "blue", NULL, NULL, NULL, NULL, NULL, NULL >>,
     << NULL, NULL, NULL, NULL, NULL, NULL, NULL, NULL, NULL, NULL >>,
     << NULL, NULL, NULL, NULL, NULL, "wall", NULL, NULL, NULL, NULL >>,
     << "wall", "wall", "wall", NULL, "wall", "wall", NULL, NULL, NULL, "forest" >>,
     << "wall", NULL, NULL, NULL, NULL, "wall", "wall", "wall", "wall", "forest" >> >>

\* an open scene: every cell Empty
OpenScene == [y \in 1..4 |-> [x \in 1..6 |-> NULL]]

\* scene[y][x] for integers x, y (0-based, as in the source)
Lookup(scene, x, y) ==
  IF y + 1 \in DOMAIN scene
    THEN (IF x + 1 \in DOMAIN scene[y + 1] THEN scene[y + 1][x + 1] ELSE UNDEFINED)
    ELSE TYPE_ERROR

RECURSIVE MaxRowLength(_, _, _)
\* the loop of sceneSize: x = Math.max(x, row.length) over the rows from row i on
MaxRowLength(scene, i, x) ==
  IF i > Len(scene) THEN x
  ELSE MaxRowLength(scene, i + 1, MathMax(x, Whole(Len(scene[i]))))

sceneSize(scene) ==
  Vector2(MaxRowLength(scene, 1, Number_MIN_VALUE), Whole(Len(scene)))

insideScene(scene, p) ==
  LET size == sceneSize(scene)
  IN  /\ LessEq(Whole(0), p.x) /\ Less(p.x, size.x)
      /\ LessEq(Whole(0), p.y) /\ Less(p.y, size.y)

(***************************************************************************)
(* Ray stepper and ray caster                                               *)
(***************************************************************************)
FAR_CLIPPING_PLANE == 10

\* snap without the EPS nudge
snapNoEps(x, dx) ==
  IF dx.n > 0 THEN Whole(-((-x.n) \div x.d))
  ELSE IF dx.n < 0 THEN Whole(x.n \div x.d)
  ELSE x

snap(x, dx) ==
  IF dx.n > 0 THEN Whole(CeilPlusEps(x))
  ELSE IF dx.n < 0 THEN Whole(FloorShift(x, -1))
  ELSE x

hittingCell(q1, q2) ==
  LET d == sub(q2, q1)
  IN  Vector2(Whole(FloorShift(q2.x, MathSign(d.x))),
              Whole(FloorShift(q2.y, MathSign(d.y))))

\* rayStepCloser with the comparison turned round
rayStepFarther(q2, p3, p3t) ==
  IF Less(sqrDistanceTo(q2, p3), sqrDistanceTo(q2, p3t)) THEN p3t ELSE p3

\* of the candidate p3 on the next vertical grid line and the candidate p3t on
\* the next horizontal one, the one rayStep keeps
rayStepCloser(q2, p3, p3t) ==
  IF Less(sqrDistanceTo(q2, p3t), sqrDistanceTo(q2, p3)) THEN p3t ELSE p3

rayStep(q1, q2) ==
  LET d == sub(q2, q1)
  IN  IF ~IsZero(d.x)
        THEN LET k == Over(d.y, d.x)
                 c == Minus(q1.y, Times(k, q1.x))
                 x3 == snap(q2.x, d.x)
                 y3 == Plus(Times(k, x3), c)
                 p3 == Vector2(x3, y3)
             IN  IF ~IsZero(k)
                   THEN LET y3t == snap(q2.y, d.y)
                            x3t == Over(Minus(y3t, c), k)
                        IN  rayStepCloser(q2, p3, Vector2(x3t, y3t))
                   ELSE p3
        ELSE Vector2(q2.x, snap(q2.y, d.y))

\* the condition of castRay's while loop
castRayInRange(st, q1) ==
  Less(sqrDistanceTo(st, q1), Whole(FAR_CLIPPING_PLANE * FAR_CLIPPING_PLANE))

\* the test of the version without a far clipping distance (src/unnamed/part_000)
castRayBreaksOutside(sc, q1, q2) ==
  LET c == hittingCell(q1, q2)
  IN  ~insideScene(sc, c) \/ Lookup(sc, c.x.n, c.y.n) # NULL

\* the test that breaks castRay's loop
castRayBreaks(sc, q1, q2) ==
  LET c == hittingCell(q1, q2)
  IN  insideScene(sc, c) /\ Lookup(sc, c.x.n, c.y.n) # NULL

\* castRayLookups without the test of insideScene in front of the lookup
castRayLookupsUnguarded(sc, q1, q2) == {hittingCell(q1, q2)}

\* the lookups of castRay's test insideScene(scene, c) && scene[c.y][c.x] !== null:
\* && evaluates its right side only when the left side is true
castRayLookups(sc, q1, q2) ==
  LET c == hittingCell(q1, q2)
  IN  IF insideScene(sc, c) THEN {c} ELSE {}

\* the lookups of renderScene for the column whose ray returned p
renderLookups(sc, playerPosition, p) ==
  LET c == hittingCell(playerPosition, p)
  IN  IF insideScene(sc, c) THEN {c} ELSE {}

\* renderScene, for the column whose ray returned p: what it draws
renderStrip(sc, playerPosition, p) ==
  LET c == hittingCell(playerPosition, p)
  IN  IF insideScene(sc, c)
        THEN LET cell == Lookup(sc, c.x.n, c.y.n)
             IN  IF cell \in Colors THEN "fillRect"
                 ELSE IF cell \in Images THEN "drawImage"
                 ELSE "none"
        ELSE "none"

(***************************************************************************)
(* State                                                                    *)
(***************************************************************************)
VARIABLES
  scene,          \* the scene grid
  position,       \* player.position
  direction,      \* player.direction, as a multiple of PI
  flags,          \* movingForward .. turningRight
  prevTimestamp,  \* timestamp of the previous animation-frame callback (ms)
  started,        \* the first animation-frame callback has run
  deltaTime,      \* deltaTime of the latest execution of frame (s)
  towards,        \* towards of the latest execution of frame
  frames,         \* number of executions of frame so far
  held,           \* history: the latest non-repeat event of the key was a key-down
  clock,          \* history: the timestamp the latest animation-frame callback got (ms)
  start,          \* castRay: start
  target,         \* castRay: the p2 it was called with
  p1,             \* castRay: p1
  p2,             \* castRay: p2
  pc,             \* castRay / renderScene: "idle", "loop", "returned", "rendered"
  exit,           \* castRay: how the loop ended, "none", "hit" or "far"
  iters,          \* castRay: calls of rayStep so far
  strip,          \* renderScene: what is drawn for the column
  lookups         \* history: the cells c of the lookups scene[c.y][c.x] that the
                  \* latest execution of frame, iteration of castRay or column
                  \* of renderScene evaluated

gameVars ==
  << position, direction, flags, prevTimestamp, started, deltaTime, towards,
     frames, held, clock >>

rayVars == << start, target, p1, p2, pc, exit, iters, strip >>

vars == << scene, gameVars, rayVars, lookups >>

FlagNames ==
  {"movingForward", "movingBackward", "movingLeft", "movingRight",
   "turningLeft", "turningRight"}

KeyCodes == {"KeyW", "KeyS", "KeyD", "KeyA", "KeyE", "KeyQ"}

\* the flag a key code drives
FlagOf(code) ==
  CASE code = "KeyW" -> "movingForward"
    [] code = "KeyS" -> "movingBackward"
    [] code = "KeyD" -> "movingRight"
    [] code = "KeyA" -> "movingLeft"
    [] code = "KeyE" -> "turningRight"
    [] code = "KeyQ" -> "turningLeft"

PLAYER_STEP_LEN == Num(1, 2)
PLAYER_SPEED == Num(5, 2)

(***************************************************************************)
(* Input listeners                                                          *)
(***************************************************************************)
\* the keydown listener: the flags after an event with e.code = code, e.repeat = repeat
keydown(fl, code, repeat) ==
  IF ~repeat
    THEN CASE code = "KeyW" -> [fl EXCEPT !.movingForward = TRUE]
           [] code = "KeyS" -> [fl EXCEPT !.movingBackward = TRUE]
           [] code = "KeyD" -> [fl EXCEPT !.movingRight = TRUE]
           [] code = "KeyA" -> [fl EXCEPT !.movingLeft = TRUE]
           [] code = "KeyE" -> [fl EXCEPT !.turningRight = TRUE]
           [] code = "KeyQ" -> [fl EXCEPT !.turningLeft = TRUE]
           [] OTHER -> fl
    ELSE fl

\* keyup with the cases of KeyD and KeyA exchanged
keyupSwapped(fl, code, repeat) ==
  IF ~repeat
    THEN CASE code = "KeyW" -> [fl EXCEPT !.movingForward = FALSE]
           [] code = "KeyS" -> [fl EXCEPT !.movingBackward = FALSE]
           [] code = "KeyD" -> [fl EXCEPT !.movingLeft = FALSE]
           [] code = "KeyA" -> [fl EXCEPT !.movingRight = FALSE]
           [] code = "KeyE" -> [fl EXCEPT !.turningRight = FALSE]
           [] code = "KeyQ" -> [fl EXCEPT !.turningLeft = FALSE]
           [] OTHER -> fl
    ELSE fl

\* the keyup listener
keyup(fl, code, repeat) ==
  IF ~repeat
    THEN CASE code = "KeyW" -> [fl EXCEPT !.movingForward = FALSE]
           [] code = "KeyS" -> [fl EXCEPT !.movingBackward = FALSE]
           [] code = "KeyD" -> [fl EXCEPT !.movingRight = FALSE]
           [] code = "KeyA" -> [fl EXCEPT !.movingLeft = FALSE]
           [] code = "KeyE" -> [fl EXCEPT !.turningRight = FALSE]
           [] code = "KeyQ" -> [fl EXCEPT !.turningLeft = FALSE]
           [] OTHER -> fl
    ELSE fl

(***************************************************************************)
(* The movement integrator: frame                                           *)
(***************************************************************************)
\* frameVelocity with the step length of the key-driven version for the speed
frameVelocityStepLen(fl, dir) ==
  LET forward == scale(fromAngle(dir), PLAYER_STEP_LEN)
      v1 == IF fl.movingForward THEN add(zero, forward) ELSE zero
      v2 == IF fl.movingBackward THEN sub(v1, forward) ELSE v1
      v3 == IF fl.movingLeft THEN sub(v2, rot90(forward)) ELSE v2
      v4 == IF fl.movingRight THEN add(v3, rot90(forward)) ELSE v3
  IN  v4

\* velocity, as frame composes it from the four movement flags
frameVelocity(fl, dir) ==
  LET forward == scale(fromAngle(dir), PLAYER_SPEED)
      v1 == IF fl.movingForward THEN add(zero, forward) ELSE zero
      v2 == IF fl.movingBackward THEN sub(v1, forward) ELSE v1
      v3 == IF fl.movingLeft THEN sub(v2, rot90(forward)) ELSE v2
      v4 == IF fl.movingRight THEN add(v3, rot90(forward)) ELSE v3
  IN  v4

\* angularVelocity, in multiples of PI per second (Math.PI * 0.5 is 1/2)
frameAngularVelocity(fl) ==
  LET a1 == IF fl.turningLeft THEN Minus(Whole(0), Num(1, 2)) ELSE Whole(0)
      a2 == IF fl.turningRight THEN Plus(a1, Num(1, 2)) ELSE a1
  IN  a2

\* deltaTime = (timestamp - prevTimestamp) / 1000
frameDeltaTime(timestamp, prev) == Over(Whole(timestamp - prev), Whole(1000))

\* towards = player.position.add(velocity.scale(deltaTime))
frameTowards(pos, velocity, dt) == add(pos, scale(velocity, dt))

\* frameCommits without the negation of insideScene
frameCommitsInside(sc, tw) ==
  LET cell == Vector2(MathFloor(tw.x), MathFloor(tw.y))
  IN  insideScene(sc, tw) \/ Lookup(sc, cell.x, cell.y) = NULL

\* the test that guards player.position = towards
frameCommits(sc, tw) ==
  LET cell == Vector2(MathFloor(tw.x), MathFloor(tw.y))
  IN  ~insideScene(sc, tw) \/ Lookup(sc, cell.x, cell.y) = NULL

\* the lookups of frame's test !insideScene(scene, towards) || scene[cell.y][cell.x] === null:
\* || evaluates its right side only when the left side is false
frameLookups(sc, tw) ==
  LET cell == Vector2(Whole(MathFloor(tw.x)), Whole(MathFloor(tw.y)))
  IN  IF ~insideScene(sc, tw) THEN {} ELSE {cell}

\* frame without prevTimestamp = timestamp
framePrevTimestampKept(timestamp, prev) == prev

\* prevTimestamp after frame(timestamp)
framePrevTimestamp(timestamp, prev) == timestamp

\* frame without player.direction += angularVelocity * deltaTime
frameDirectionKept(dir, angularVelocity, dt) == dir

\* player.direction after player.direction += angularVelocity * deltaTime
frameDirection(dir, angularVelocity, dt) == Plus(dir, Times(angularVelocity, dt))

\* the callback of the first requestAnimationFrame: it records the timestamp
\* and requests frame
Start(timestamp) ==
  /\ ~started
  /\ started' = TRUE
  /\ prevTimestamp' = timestamp
  /\ clock' = timestamp
  /\ UNCHANGED << scene, position, direction, flags, deltaTime, towards, frames, held >>
  /\ UNCHANGED << rayVars, lookups >>

\* the movement integrator: frame(timestamp) up to its call of renderGame
Integrate(timestamp) ==
  /\ started
  /\ frames < MaxFrames
  /\ LET dt == frameDeltaTime(timestamp, prevTimestamp)
         velocity == frameVelocity(flags, direction)
         angularVelocity == frameAngularVelocity(flags)
         tw == frameTowards(position, velocity, dt)
     IN  /\ deltaTime' = dt
         /\ prevTimestamp' = framePrevTimestamp(timestamp, prevTimestamp)
         /\ direction' = frameDirection(direction, angularVelocity, dt)
         /\ towards' = tw
         /\ position' = IF frameCommits(scene, tw) THEN tw ELSE position
         /\ lookups' = frameLookups(scene, tw)
  /\ frames' = frames + 1
  /\ clock' = timestamp
  /\ UNCHANGED << scene, flags, started, held >>

\* one execution of frame(timestamp).  renderGame, which frame calls last,
\* reads the player and the scene and writes only to the canvas; the strip it
\* draws for one column is modelled by SpecRay and SpecWalk below.
Frame(timestamp) ==
  /\ pc = "idle"
  /\ Integrate(timestamp)
  /\ UNCHANGED rayVars

\* a keydown event reaches the listener
KeyDown(code, repeat) ==
  /\ repeat \/ held[code] \/ Cardinality({k \in KeyCodes : held[k]}) < MaxHeld
  /\ flags' = keydown(flags, code, repeat)
  /\ held' = IF repeat THEN held ELSE [held EXCEPT ![code] = TRUE]
  /\ UNCHANGED << scene, position, direction, prevTimestamp, started, deltaTime,
                  towards, frames, clock >>
  /\ UNCHANGED << rayVars, lookups >>

\* a keyup event reaches the listener (the browser never marks a keyup as a repeat)
KeyUp(code) ==
  /\ flags' = keyup(flags, code, FALSE)
  /\ held' = [held EXCEPT ![code] = FALSE]
  /\ UNCHANGED << scene, position, direction, prevTimestamp, started, deltaTime,
                  towards, frames, clock >>
  /\ UNCHANGED << rayVars, lookups >>

\* the timestamps the first callback may see, and the gaps between two callbacks (ms)
FirstTimestamps == {0, 500}
FrameGaps == {0, 1000}

\* the player of the program in the program's scene, and a player at (2, 2)
\* facing east in an open scene
Players ==
  { [scene |-> ProgramScene,
     position |-> Vector2(Num(63, 10), Num(441, 100)), direction |-> Num(5, 4)],
    [scene |-> OpenScene,
     position |-> Vector2(Whole(2), Whole(2)), direction |-> Whole(0)] }

Init ==
  /\ \E pl \in Players :
       /\ scene = pl.scene
       /\ position = pl.position
       /\ direction = pl.direction
       /\ towards = pl.position
  /\ flags = [f \in FlagNames |-> FALSE]
  /\ held = [k \in KeyCodes |-> FALSE]
  /\ prevTimestamp = 0
  /\ clock = 0
  /\ started = FALSE
  /\ deltaTime = Whole(0)
  /\ frames = 0
  /\ start = zero /\ target = zero /\ p1 = zero /\ p2 = zero
  /\ pc = "idle" /\ exit = "none" /\ iters = 0 /\ strip = "none"
  /\ lookups = {}

Next ==
  \/ \E t \in FirstTimestamps : Start(t)
  \/ \E g \in FrameGaps : Frame(clock + g)
  \/ \E code \in KeyCodes, repeat \in BOOLEAN : KeyDown(code, repeat)
  \/ \E code \in KeyCodes : KeyUp(code)

Spec == Init /\ [][Next]_vars

(***************************************************************************)
(* Properties of the input listeners and of the movement integrator (Spec)  *)
(***************************************************************************)
\* the number of rows of a scene, and the length of its longest row
RowCount(sc) == Len(sc)
MaxRowLen(sc) ==
  IF sc = << >> THEN 0
  ELSE CHOOSE m \in {Len(sc[i]) : i \in DOMAIN sc} :
         \A i \in DOMAIN sc : Len(sc[i]) <= m

\* the point p lies in [0, width) x [0, height)
InBounds(sc, p) ==
  /\ p.x.n >= 0 /\ p.x.n < MaxRowLen(sc) * p.x.d
  /\ p.y.n >= 0 /\ p.y.n < RowCount(sc) * p.y.d

\* the cell value at the floor-cell of p
CellUnder(sc, p) == Lookup(sc, p.x.n \div p.x.d, p.y.n \div p.y.d)

\* C1: the player position is never inside a non-Empty cell of the scene: at
\* every frame it is outside the scene bounds or in an Empty cell.
C1_PositionNeverInOccupiedCell ==
  pc = "idle" => (~InBounds(scene, position) \/ CellUnder(scene, position) = NULL)

\* C1, its case: a frame has computed a move into a non-Empty cell and has not
\* committed it.
C1_Witness ==
  /\ frames > 0 /\ towards # position
  /\ InBounds(scene, towards) /\ CellUnder(scene, towards) # NULL

\* C6: every flag is true exactly when the latest non-repeat event of its key
\* was a key-down (a repeated key-down changes nothing, and no event changes
\* the flag of another key).
C6_FlagsFollowKeys ==
  pc = "idle" => \A k \in KeyCodes : flags[FlagOf(k)] = held[k]

\* C6, its case: one key is down and the flags of all the other keys are clear
\* after at least one frame.
C6_Witness ==
  /\ frames > 0 /\ held["KeyD"] /\ flags.movingRight
  /\ \A f \in FlagNames \ {"movingRight"} : ~flags[f]

OnlyAdvance(fl) ==
  /\ fl.movingForward
  /\ \A f \in FlagNames \ {"movingForward"} : ~fl[f]

\* C8: a frame with only the advance flag set computes the candidate position
\* position + (cos(direction), sin(direction)) * 2.5 * dt and leaves the heading
\* alone; from (2, 2), heading 0, in the open scene with dt = 1 s the player
\* ends the frame at (4.5, 2).
C8_AdvanceOnly ==
  [][ (frames' = frames + 1 /\ OnlyAdvance(flags)) =>
        /\ towards' = add(position,
                          scale(fromAngle(direction), Times(Num(5, 2), deltaTime')))
        /\ direction' = direction
        /\ ( /\ scene = OpenScene
             /\ position = Vector2(Whole(2), Whole(2))
             /\ direction = Whole(0)
             /\ deltaTime' = Whole(1) )
           => position' = Vector2(Num(9, 2), Whole(2)) ]_vars

\* C8, its case: the player of the open scene after one frame of 1 s with only
\* the advance flag set.
C8_Witness ==
  /\ scene = OpenScene /\ frames = 1 /\ OnlyAdvance(flags)
  /\ deltaTime = Whole(1) /\ direction = Whole(0)
  /\ position = Vector2(Num(9, 2), Whole(2))

\* C10, as claimed: the first execution of frame uses dt = 0, and every later
\* one the gap between its timestamp and the previous frame's.
C10_FirstFrameZero ==
  [][ frames' = frames + 1 =>
        IF frames = 0 THEN deltaTime' = Whole(0)
        ELSE deltaTime' = Over(Whole(clock' - clock), Whole(1000)) ]_vars

\* C10, amended: every execution of frame, the first included, uses the gap
\* between its timestamp and the timestamp of the animation-frame callback
\* before it; the callback before the first frame only records its timestamp.
C10_DeltaIsGapToPreviousCallback ==
  [][ /\ frames' = frames + 1 =>
          deltaTime' = Over(Whole(clock' - clock), Whole(1000))
      /\ (~started /\ started') =>
          (frames' = frames /\ position' = position /\ direction' = direction) ]_vars

\* C10, its case: the first frame has run with a dt that is not zero
C10_Witness == frames = 1 /\ deltaTime = Whole(1)

(***************************************************************************)
(* One cast of a ray and the strip drawn for it: castRay step by step,      *)
(* followed by the body of renderScene's loop for that column               *)
(***************************************************************************)
\* The origins and targets lie on a grid much coarser than EPS, so that every
\* intermediate value stays within the 32-bit integers; EPS then decides the
\* floor and the ceiling only of the coordinates that lie exactly on a grid
\* line, which is where every ray tip after the first step lies.
\* a 3x3 scene, Empty except cell (1, 1)
Scene3x3 ==
  << << NULL, NULL, NULL >>, << NULL, "wall", NULL >>, << NULL, NULL, NULL >> >>

\* one row of 14 cells, Empty except the last
Corridor == << [x \in 1..14 |-> IF x = 14 THEN "red" ELSE NULL] >>

\* rows of different lengths
RaggedScene == << << NULL, NULL, "red" >>, << NULL >>, << NULL, "wall" >> >>

\* one row without cells
EmptyRowScene == << << >> >>

RayScenes == {ProgramScene, Scene3x3, Corridor, RaggedScene, EmptyRowScene}

Origins ==
  { Vector2(Num(a, 2), Num(b, 2)) : a \in 0..(2 * OriginMax), b \in 0..(2 * OriginMax) }

Offsets ==
  { Vector2(Num(i, 4), Num(j, 4)) : i \in (-TargetSpan)..TargetSpan,
                                    j \in (-TargetSpan)..TargetSpan }

\* one iteration of castRay's loop that ends in p1 = p2; p2 = p3
CastStep ==
  /\ pc = "loop"
  /\ iters < MaxIters
  /\ castRayInRange(start, p1)
  /\ ~castRayBreaks(scene, p1, p2)
  /\ p1' = p2
  /\ p2' = rayStep(p1, p2)
  /\ iters' = iters + 1
  /\ lookups' = castRayLookups(scene, p1, p2)
  /\ UNCHANGED << scene, gameVars, start, target, pc, exit, strip >>

\* the iteration that ends in break
CastBreak ==
  /\ pc = "loop"
  /\ castRayInRange(start, p1)
  /\ castRayBreaks(scene, p1, p2)
  /\ pc' = "returned"
  /\ exit' = "hit"
  /\ lookups' = castRayLookups(scene, p1, p2)
  /\ UNCHANGED << scene, gameVars, start, target, p1, p2, iters, strip >>

\* the loop condition fails
CastFar ==
  /\ pc = "loop"
  /\ ~castRayInRange(start, p1)
  /\ pc' = "returned"
  /\ exit' = "far"
  /\ lookups' = {}
  /\ UNCHANGED << scene, gameVars, start, target, p1, p2, iters, strip >>

\* renderScene's loop body after castRay has returned p2
RenderColumn ==
  /\ pc = "returned"
  /\ strip' = renderStrip(scene, position, p2)
  /\ pc' = "rendered"
  /\ lookups' = renderLookups(scene, position, p2)
  /\ UNCHANGED << scene, gameVars, start, target, p1, p2, exit, iters >>

InitRay ==
  /\ scene \in RayScenes
  /\ \E o \in Origins, off \in Offsets :
       /\ position = o /\ towards = o
       /\ start = o /\ p1 = o
       /\ target = add(o, off) /\ p2 = add(o, off)
  /\ direction = Whole(0)
  /\ flags = [f \in FlagNames |-> FALSE]
  /\ held = [k \in KeyCodes |-> FALSE]
  /\ prevTimestamp = 0
  /\ clock = 0
  /\ started = FALSE
  /\ deltaTime = Whole(0)
  /\ frames = 0
  /\ pc = "loop" /\ exit = "none" /\ iters = 0 /\ strip = "none"
  /\ lookups = {}

NextRay == CastStep \/ CastBreak \/ CastFar \/ RenderColumn

SpecRay == InitRay /\ [][NextRay]_vars

(***************************************************************************)
(* Properties of the ray stepper, the ray caster and the strip (SpecRay)    *)
(***************************************************************************)
Returned == pc \in {"returned", "rendered"}

IsInteger(a) == a.d = 1

Smaller(a, b) == IF Less(a, b) THEN a ELSE b
Larger(a, b) == IF Less(a, b) THEN b ELSE a

\* the cells of the scene whose lookup is not null
NonEmptyCells(sc) ==
  { c \in (0..(MaxRowLen(sc) - 1)) \X (0..(RowCount(sc) - 1)) :
      Lookup(sc, c[1], c[2]) # NULL }

\* the values of t at which a + t * (b - a) lies strictly between lo and lo + 1,
\* as an open interval << from, to >>; << 1, 0 >> when there are none
Window(a, b, lo) ==
  LET dd == Minus(b, a)
      t0 == Over(Minus(Whole(lo), a), dd)
      t1 == Over(Minus(Whole(lo + 1), a), dd)
  IN  IF IsZero(dd)
        THEN (IF Less(Whole(lo), a) /\ Less(a, Whole(lo + 1))
                THEN << Whole(0), Whole(1) >> ELSE << Whole(1), Whole(0) >>)
        ELSE << Smaller(t0, t1), Larger(t0, t1) >>

\* the open segment from a to b meets the interior of the cell c
CrossesCell(a, b, c) ==
  LET wx == Window(a.x, b.x, c[1])
      wy == Window(a.y, b.y, c[2])
      from == Larger(Whole(0), Larger(wx[1], wy[1]))
      to == Smaller(Whole(1), Smaller(wx[2], wy[2]))
  IN  Less(from, to)

\* a point of the ray from a through b that lies beyond every model scene
FarPoint(a, b) == add(a, scale(sub(b, a), Whole(80)))

CastIterationBound == 2 * FAR_CLIPPING_PLANE + 4

\* C3: for every starting pair inside the scene castRay ends within a bounded
\* number of calls of rayStep.
C3_CastEndsInBound ==
  (pc # "idle" /\ InBounds(scene, start) /\ InBounds(scene, target))
    => iters <= CastIterationBound

\* the ray is cast as renderScene casts it: from an Empty cell, toward a target
\* in that same cell
FromEmptyCell ==
  /\ InBounds(scene, start) /\ CellUnder(scene, start) = NULL
  /\ hittingCell(start, target) =
       Vector2(Whole(MathFloor(start.x)), Whole(MathFloor(start.y)))

\* the returned point lies on the edge of cell c that faces the start
OnNearEdge(c) ==
  LET d == sub(p2, start)
  IN  /\ LessEq(c.x, p2.x) /\ LessEq(p2.x, Plus(c.x, Whole(1)))
      /\ LessEq(c.y, p2.y) /\ LessEq(p2.y, Plus(c.y, Whole(1)))
      /\ \/ d.x.n > 0 /\ p2.x = c.x
         \/ d.x.n < 0 /\ p2.x = Plus(c.x, Whole(1))
         \/ d.y.n > 0 /\ p2.y = c.y
         \/ d.y.n < 0 /\ p2.y = Plus(c.y, Whole(1))

\* the cell of the returned point is the first non-Empty cell on the ray, and
\* the point lies on its near edge
FirstHit ==
  LET c == hittingCell(start, p2)
  IN  /\ insideScene(scene, c) /\ Lookup(scene, c.x.n, c.y.n) # NULL
      /\ \A e \in NonEmptyCells(scene) : ~CrossesCell(start, p2, e)
      /\ OnNearEdge(c)

NextLine(x, dx) ==
  IF dx.n > 0 THEN Whole(CeilPlusEps(x)) ELSE Whole(FloorShift(x, -1))

\* the point of the line through q1 and q2 on the next vertical grid line
\* (for q1.x # q2.x), and the one on the next horizontal grid line
VerticalCrossing(q1, q2) ==
  LET d == sub(q2, q1)
      x == NextLine(q2.x, d.x)
  IN  Vector2(x, Plus(q2.y, Over(Times(d.y, Minus(x, q2.x)), d.x)))

HorizontalCrossing(q1, q2) ==
  LET d == sub(q2, q1)
      y == NextLine(q2.y, d.y)
  IN  Vector2(Plus(q2.x, Over(Times(d.x, Minus(y, q2.y)), d.y)), y)

\* the candidates of rayStep(q1, q2)
Crossings(q1, q2) ==
  LET d == sub(q2, q1)
  IN  (IF IsZero(d.x) THEN {} ELSE {VerticalCrossing(q1, q2)})
        \cup (IF IsZero(d.y) THEN {} ELSE {HorizontalCrossing(q1, q2)})

\* C5: for p1 # p2, rayStep(p1, p2) is a point of the line through p1 and p2,
\* ahead of p2, on an integer grid line of the axis it targeted, and it is the
\* candidate crossing with the least squared distance to p2.
C5_RayStepNearestCrossing ==
  (pc = "loop" /\ p1 # p2) =>
    LET r == rayStep(p1, p2)
        d == sub(p2, p1)
    IN  /\ Minus(Times(d.x, Minus(r.y, p1.y)), Times(d.y, Minus(r.x, p1.x))) = Whole(0)
        /\ Less(Whole(0), dot(sub(r, p2), d))
        /\ r \in Crossings(p1, p2)
        /\ \/ r = VerticalCrossing(p1, p2) /\ ~IsZero(d.x) /\ IsInteger(r.x)
           \/ r = HorizontalCrossing(p1, p2) /\ ~IsZero(d.y) /\ IsInteger(r.y)
        /\ \A q \in Crossings(p1, p2) :
             LessEq(sqrDistanceTo(p2, r), sqrDistanceTo(p2, q))

\* C5, its case: both candidates exist, they differ, and the horizontal one is
\* returned
C5_Witness ==
  /\ pc = "loop" /\ iters >= 1
  /\ p1.x # p2.x /\ p1.y # p2.y
  /\ VerticalCrossing(p1, p2) # HorizontalCrossing(p1, p2)
  /\ rayStep(p1, p2) = HorizontalCrossing(p1, p2)

\* C7: when castRay ends on the far clipping distance, renderScene draws no
\* strip for the column.
C7_FarClipDrawsNothing ==
  (pc = "rendered" /\ exit = "far") => strip = "none"

\* C9: insideScene(p) holds exactly of the points of [0, width) x [0, height),
\* width the length of the longest row and height the number of rows, and the
\* lookup at every integer point of that rectangle is a cell value.
C9_LookupsInBoundsDefined ==
  pc # "idle" =>
    /\ \A q \in {start, target, p2} : insideScene(scene, q) <=> InBounds(scene, q)
    /\ \A x \in 0..(MaxRowLen(scene) - 1), y \in 0..(RowCount(scene) - 1) :
         Lookup(scene, x, y) \in {NULL} \cup Colors \cup Images

(***************************************************************************)
(* Blocked and tunnelling moves of the movement integrator (Spec)           *)
(***************************************************************************)
\* the turn rate the flags ask for, in multiples of PI per second
TurnRate(fl) ==
  Minus(IF fl.turningRight THEN Num(1, 2) ELSE Whole(0),
        IF fl.turningLeft THEN Num(1, 2) ELSE Whole(0))

\* the open segment from a to b meets the interior of a non-Empty cell
CrossesOccupied(sc, a, b) ==
  \E e \in NonEmptyCells(sc) : CrossesCell(a, b, e)

\* C11: a frame whose candidate position is inside the scene, in a cell that is
\* not Empty, leaves the position alone; every frame adds angularVelocity * dt
\* to the heading, blocked or not; and a frame whose candidate position is in
\* an Empty cell commits it even when the straight path to it crosses a
\* non-Empty cell.
C11_BlockedKeepsPositionTurnsHeading ==
  [][ frames' = frames + 1 =>
        /\ (InBounds(scene, towards') /\ CellUnder(scene, towards') # NULL)
             => position' = position
        /\ direction' = Plus(direction, Times(TurnRate(flags), deltaTime'))
        /\ ( /\ InBounds(scene, towards') /\ CellUnder(scene, towards') = NULL
             /\ CrossesOccupied(scene, position, towards') )
             => position' = towards' ]_vars

\* C11, its case: the player of the program has moved through the wall of
\* cell (5, 4) in one frame of 1 s, and a second frame of 1 s with a turn key
\* down was blocked by cell (2, 0) and has turned the heading.
C11_Witness ==
  /\ scene = ProgramScene /\ frames = 2
  /\ position = Vector2(Num(1813, 400), Num(1057, 400))
  /\ CrossesCell(Vector2(Num(63, 10), Num(441, 100)), position, << 5, 4 >>)
  /\ Lookup(scene, 5, 4) # NULL
  /\ towards # position
  /\ InBounds(scene, towards) /\ CellUnder(scene, towards) # NULL
  /\ flags.turningRight /\ deltaTime = Whole(1)
  /\ direction = Num(7, 4)

(***************************************************************************)
(* rayStep applied to one pair of points (SpecStep).  The pairs include     *)
(* tips that lie EPS before or after a grid line; for those the ray is kept *)
(* parallel to an axis, where rayStep and hittingCell need no product of    *)
(* two numbers with the denominator of EPS.                                 *)
(***************************************************************************)
\* the points n - EPS and n + EPS around the grid lines n = 0 .. OriginMax + 1
EpsBand ==
  { Num(n * EPS_DEN + s, EPS_DEN) : n \in 0..(OriginMax + 1), s \in {-1, 1} }

\* the pairs (p1, p2) rayStep is applied to
StepPairs ==
  { << o, add(o, off) >> : o \in Origins, off \in Offsets }
    \cup { << o, Vector2(e, o.y) >> : o \in Origins, e \in EpsBand }
    \cup { << o, Vector2(o.x, e) >> : o \in Origins, e \in EpsBand }

\* the end of an iteration of castRay that does not break:
\* p3 = rayStep(p1, p2); p1 = p2; p2 = p3
StepPair ==
  /\ pc = "pair"
  /\ p1' = p2
  /\ p2' = rayStep(p1, p2)
  /\ iters' = iters + 1
  /\ pc' = "stepped"
  /\ UNCHANGED << scene, gameVars, start, target, exit, strip, lookups >>

InitStep ==
  /\ scene = OpenScene
  /\ \E pair \in StepPairs :
       /\ position = pair[1] /\ towards = pair[1]
       /\ start = pair[1] /\ p1 = pair[1]
       /\ target = pair[2] /\ p2 = pair[2]
  /\ direction = Whole(0)
  /\ flags = [f \in FlagNames |-> FALSE]
  /\ held = [k \in KeyCodes |-> FALSE]
  /\ prevTimestamp = 0
  /\ clock = 0
  /\ started = FALSE
  /\ deltaTime = Whole(0)
  /\ frames = 0
  /\ pc = "pair" /\ exit = "none" /\ iters = 0 /\ strip = "none"
  /\ lookups = {}

NextStep == StepPair

SpecStep == InitStep /\ [][NextStep]_vars

\* b lies on the same side of a on both axes as d points
AheadOf(a, b, d) ==
  /\ MathSign(Minus(b.x, a.x)) = MathSign(d.x)
  /\ MathSign(Minus(b.y, a.y)) = MathSign(d.y)

\* C12: for p1 # p2, rayStep(p1, p2) differs from p2, lies strictly ahead of
\* p2 in the direction p2 - p1, and the hitting cell of the new tip differs
\* from the hitting cell of the old tip p2.  (After the step, start holds the
\* old p1, p1 the old tip and p2 the new tip.)
C12_RayStepStrictProgress ==
  (pc = "stepped" /\ start # p1) =>
    /\ p2 # p1
    /\ AheadOf(p1, p2, sub(p1, start))
    /\ hittingCell(p1, p2) # hittingCell(start, p1)

(***************************************************************************)
(* A walk: frames that integrate the movement and then render (SpecWalk).   *)
(* Each execution of frame moves the player and casts the ray of one column *)
(* of renderScene from the new position; the columns are independent of one *)
(* another, so one column per frame, chosen freely, stands for the loop.    *)
(* The flags are those of any keys held when the walk begins.               *)
(***************************************************************************)
SCREEN_WIDTH == 800

\* the distance of the near plane from the player.  The source puts it at EPS;
\* the model puts it at 1/4, which casts the ray of a column along the same
\* line from the same position and keeps the squared distances of castRay
\* within the 32-bit integers.
NearPlane == Num(1, 4)

\* Vector2.norm, for a vector parallel to an axis (its length is the absolute
\* value of its one component that is not zero)
norm(this) ==
  IF IsZero(this.x) /\ IsZero(this.y) THEN zero
  ELSE Vector2(Whole(MathSign(this.x)), Whole(MathSign(this.y)))

lerp(this, that, alpha) == add(scale(sub(that, this), alpha), this)

\* Player.fovRange; Math.tan(FOV * 0.5) is 1
fovRange(pos, dir) ==
  LET len == Times(Whole(1), NearPlane)
      p == add(pos, scale(fromAngle(dir), NearPlane))
      side == scale(norm(rot90(sub(p, pos))), len)
  IN  << sub(p, side), add(p, side) >>

\* the target of the ray of column x: r1.lerp(r2, x / SCREEN_WIDTH)
columnTarget(pos, dir, x) ==
  LET r == fovRange(pos, dir)
  IN  lerp(r[1], r[2], Num(x, SCREEN_WIDTH))

\* the columns of renderScene the model casts
Columns == {0, SCREEN_WIDTH \div 2, (3 * SCREEN_WIDTH) \div 4}

\* the player at (2, 2) facing east in the open scene, and a player of the
\* program's scene that has walked to (1.5, 1.5) and faces east
Walkers ==
  { [scene |-> OpenScene,
     position |-> Vector2(Whole(2), Whole(2)), direction |-> Whole(0)],
    [scene |-> ProgramScene,
     position |-> Vector2(Num(3, 2), Num(3, 2)), direction |-> Whole(0)] }

\* the sets of at most MaxHeld keys
HeldKeys == { ks \in SUBSET KeyCodes : Cardinality(ks) <= MaxHeld }

\* frame(timestamp): the integrator, then renderGame up to the entry of
\* castRay for column x of renderScene
WalkFrame(timestamp, x) ==
  /\ pc \in {"idle", "rendered"}
  /\ Integrate(timestamp)
  /\ LET tgt == columnTarget(position', direction', x)
     IN  /\ start' = position' /\ p1' = position'
         /\ target' = tgt /\ p2' = tgt
  /\ pc' = "loop" /\ exit' = "none" /\ iters' = 0 /\ strip' = "none"

InitWalk ==
  /\ \E w \in Walkers :
       /\ scene = w.scene
       /\ position = w.position
       /\ direction = w.direction
       /\ towards = w.position
  /\ \E ks \in HeldKeys :
       /\ held = [k \in KeyCodes |-> k \in ks]
       /\ flags = [f \in FlagNames |-> \E k \in ks : FlagOf(k) = f]
  /\ prevTimestamp = 0
  /\ clock = 0
  /\ started = TRUE
  /\ deltaTime = Whole(0)
  /\ frames = 0
  /\ start = zero /\ target = zero /\ p1 = zero /\ p2 = zero
  /\ pc = "idle" /\ exit = "none" /\ iters = 0 /\ strip = "none"
  /\ lookups = {}

NextWalk ==
  \/ \E g \in FrameGaps, x \in Columns : WalkFrame(clock + g, x)
  \/ CastStep
  \/ CastBreak
  \/ CastFar
  \/ RenderColumn

SpecWalk == InitWalk /\ [][NextWalk]_vars

\* C13: every lookup scene[y][x] of castRay, of renderScene and of the movement
\* integrator has integer indices with 0 <= x < width and 0 <= y < height,
\* wherever the player stands, outside the scene and at negative coordinates
\* included.
C13_LookupsInRange ==
  \A c \in lookups :
    /\ IsInteger(c.x) /\ IsInteger(c.y)
    /\ 0 <= c.x.n /\ c.x.n < MaxRowLen(scene)
    /\ 0 <= c.y.n /\ c.y.n < RowCount(scene)

\* C13, its case: the player has walked out of the scene to negative
\* coordinates, and the ray cast from there has come to a cell that castRay
\* looked up.
C13_Witness ==
  /\ frames > 0 /\ ~InBounds(scene, position)
  /\ (position.x.n < 0 \/ position.y.n < 0)
  /\ start = position /\ iters > 0
  /\ lookups # {}

====
